---- MODULE Spec2Model ----
(***************************************************************************)
(* A model of pawprint (src/pawprint.c): the tmpfiles.d-style reconciler.  *)
(* Text is modelled as sequences of one-character strings, the filesystem  *)
(* as a function from physical paths (sequences of names) to inodes.       *)
(***************************************************************************)
EXTENDS Integers, Sequences, FiniteSets, TLC

VARIABLES
    conf,      \* the rule stream: the lines getline() will return, in order
    pos,       \* index of the next line of conf to be read
    status,    \* "running", "done" (parse_conf returned) or "crashed"
    gArg,      \* the execution-mode record: boot, clean, create, remove
    fs,        \* the filesystem: physical path -> inode
    cwd,       \* the process's current working directory (a physical path)
    excl,      \* gArg.excludedList / gArg.excludedCount
    last,      \* observation of the loop iteration just completed
    ageCall,   \* a call of convert_age: its argument and result
    attrCall   \* a call of do_set_file_attr: its argument and the prior mask

vars == <<conf, pos, status, gArg, fs, cwd, excl, last, ageCall, attrCall>>

(***************************************************************************)
(* Text helpers                                                            *)
(***************************************************************************)

\* F applied to the value of x, which is computed once
Bind(x, F(_)) == F(x)

\* isspace() on the characters the model uses
IsSpace(c) == c \in {" ", "\t", "\n"}

\* value of a digit character, 99 for a character that is no digit
DigitVal(c) ==
    CASE c = "0" -> 0 [] c = "1" -> 1 [] c = "2" -> 2 [] c = "3" -> 3
      [] c = "4" -> 4 [] c = "5" -> 5 [] c = "6" -> 6 [] c = "7" -> 7
      [] c = "8" -> 8 [] c = "9" -> 9
      [] c \in {"a", "A"} -> 10 [] c \in {"b", "B"} -> 11
      [] c \in {"c", "C"} -> 12 [] c \in {"d", "D"} -> 13
      [] c \in {"e", "E"} -> 14 [] c \in {"f", "F"} -> 15
      [] OTHER -> 99

RECURSIVE SkipWs(_)
SkipWs(s) == IF s # <<>> /\ IsSpace(Head(s)) THEN SkipWs(Tail(s)) ELSE s

RECURSIVE ReadDigits(_, _, _, _)
ReadDigits(s, base, acc, n) ==
    IF s # <<>> /\ DigitVal(Head(s)) < base
    THEN ReadDigits(Tail(s), base, acc * base + DigitVal(Head(s)), n + 1)
    ELSE [val |-> acc, rest |-> s, n |-> n]

\* strtol(s, &end, base): leading blanks, a sign, with base 0 a 0x or 0 prefix
\* selecting hexadecimal or octal, then the digits of the base.  Nothing
\* converted: value 0 and end = s.
strtol(s, base) == 
    Bind(SkipWs(s), LAMBDA t :
    Bind(IF t # <<>> /\ Head(t) \in {"+", "-"} THEN Tail(t) ELSE t, LAMBDA u :
    Bind(/\ base \in {0, 16}
         /\ Len(u) >= 3
         /\ u[1] = "0"
         /\ u[2] \in {"x", "X"}
         /\ DigitVal(u[3]) < 16, LAMBDA hexp :
    Bind(ReadDigits(IF hexp THEN SubSeq(u, 3, Len(u)) ELSE u,
                    IF hexp THEN 16
                    ELSE IF base = 0
                         THEN (IF u # <<>> /\ u[1] = "0" THEN 8 ELSE 10)
                         ELSE base,
                    0, 0), LAMBDA r :
        IF r.n = 0
        THEN [val |-> 0, rest |-> s]
        ELSE [val |-> IF t # <<>> /\ Head(t) = "-" THEN 0 - r.val ELSE r.val,
              rest |-> r.rest]))))

AgeUnit(c) ==
    CASE c = "d" -> 86400
      [] c = "w" -> 604800
      [] c = "h" -> 3600
      [] c = "m" -> 60
      [] c = "s" -> 1
      [] OTHER -> 0

RECURSIVE convert_age_loop(_, _)
convert_age_loop(s, t) == 
    Bind(strtol(s, 0), LAMBDA r :
        IF r.rest = <<>>
        THEN t
        ELSE IF AgeUnit(Head(r.rest)) = 0
             THEN 0 - 1
             ELSE convert_age_loop(Tail(r.rest),
                                   t + AgeUnit(Head(r.rest)) * r.val))

convert_age(s) ==
    IF s = <<>> \/ Head(s) = "-"
    THEN 0 - 1
    ELSE convert_age_loop(s, 0)


(***************************************************************************)
(* The filesystem                                                          *)
(***************************************************************************)

\* time(NULL) during the run; the model's clock does not advance within a run
Now == 1000000

\* the path a NULL char pointer stands for
NULLSTR == <<"(null)">>

Str(c) == <<c>>

MkNode(kind, mode, data, target, t) ==
    [kind |-> kind, mode |-> mode, uid |-> 0, gid |-> 0, data |-> data,
     atime |-> t, mtime |-> t, ctime |-> t, flags |-> {}, target |-> target]

Parent(p) == IF p = <<>> THEN <<>> ELSE SubSeq(p, 1, Len(p) - 1)

Children(f, d) ==
    {q \in DOMAIN f : Len(q) = Len(d) + 1 /\ SubSeq(q, 1, Len(d)) = d}

IsDirAt(f, p) == p \in DOMAIN f /\ f[p].kind = "dir"

\* the components of a path string: the text between slashes
RECURSIVE SplitPath(_, _, _)
SplitPath(s, cur, acc) ==
    IF s = <<>>
    THEN (IF cur = <<>> THEN acc ELSE Append(acc, cur))
    ELSE IF Head(s) = "/"
         THEN SplitPath(Tail(s), <<>>, IF cur = <<>> THEN acc ELSE Append(acc, cur))
         ELSE SplitPath(Tail(s), Append(cur, Head(s)), acc)

\* kernel path walk from directory cur over comps[i..]; a symbolic link is
\* followed in every component but the last, and in the last when follow
RECURSIVE Walk(_, _, _, _, _)
Walk(f, cur, comps, i, follow) ==
    IF i > Len(comps)
    THEN [ok |-> cur \in DOMAIN f, p |-> cur]
    ELSE IF ~IsDirAt(f, cur)
         THEN [ok |-> FALSE, p |-> cur]
         ELSE LET c     == comps[i]
                  lastc == i = Len(comps)
                  child == Append(cur, c)
                  nxt   == IF c = <<".">> THEN cur
                           ELSE IF c = <<".", ".">> THEN Parent(cur)
                           ELSE IF /\ child \in DOMAIN f
                                   /\ f[child].kind = "link"
                                   /\ (~lastc \/ follow)
                                THEN f[child].target
                                ELSE child
              IN  IF lastc
                  THEN [ok |-> TRUE, p |-> nxt]
                  ELSE Walk(f, nxt, comps, i + 1, follow)

\* Resolve a path string: ok is FALSE when an intermediate component is
\* missing or no directory (ENOENT, ENOTDIR) or the pointer is bad (EFAULT);
\* with ok, p is the physical location, which need not exist yet
Resolve(f, wd, s, follow) ==
    IF s = NULLSTR \/ s = <<>>
    THEN [ok |-> FALSE, p |-> <<>>]
    ELSE Walk(f, IF Head(s) = "/" THEN <<>> ELSE wd, SplitPath(s, <<>>, <<>>),
              1, follow)

Exists(f, wd, s, follow) == 
    Bind(Resolve(f, wd, s, follow), LAMBDA r : r.ok /\ r.p \in DOMAIN f)

FsPut(f, p, node) ==
    [q \in DOMAIN f \cup {p} |-> IF q = p THEN node ELSE f[q]]

FsDel(f, p) == [q \in DOMAIN f \ {p} |-> f[q]]

\* a directory whose entry list changed
TouchDir(f, d) ==
    IF d \in DOMAIN f
    THEN [f EXCEPT ![d].mtime = Now, ![d].ctime = Now]
    ELSE f

\* stat(path, &t) == 0
is_valid_file(f, wd, s) == Exists(f, wd, s, TRUE)

\* most recent of atime, mtime, ctime
get_last_time(f, wd, s) == 
    Bind(f[Resolve(f, wd, s, TRUE).p], LAMBDA t :
    Bind(IF t.atime > t.mtime THEN t.atime ELSE t.mtime, LAMBDA lastChange :
        IF lastChange > t.ctime THEN lastChange ELSE t.ctime))

is_directory(f, wd, s) == 
    Bind(Resolve(f, wd, s, TRUE), LAMBDA r : r.ok /\ IsDirAt(f, r.p))

SysRemove(f, wd, s) == 
    Bind(Resolve(f, wd, s, FALSE), LAMBDA r :
        IF ~(r.ok /\ r.p \in DOMAIN f) \/ r.p = <<>>
        THEN [ok |-> FALSE, fs |-> f, p |-> r.p]
        ELSE IF f[r.p].kind = "dir" /\ Children(f, r.p) # {}
             THEN [ok |-> FALSE, fs |-> f, p |-> r.p]
             ELSE [ok |-> TRUE, fs |-> TouchDir(FsDel(f, r.p), Parent(r.p)),
                   p |-> r.p])

SysMkdir(f, wd, s, mode) == 
    Bind(Resolve(f, wd, s, FALSE), LAMBDA r :
        IF ~r.ok \/ r.p \in DOMAIN f \/ ~IsDirAt(f, Parent(r.p))
        THEN [ok |-> FALSE, fs |-> f]
        ELSE [ok |-> TRUE,
              fs |-> TouchDir(FsPut(f, r.p, MkNode("dir", mode, <<>>, <<>>, Now)),
                              Parent(r.p))])

SysCreat(f, wd, s, cmode) == 
    Bind(Resolve(f, wd, s, TRUE), LAMBDA r :
        IF ~r.ok \/ ~IsDirAt(f, Parent(r.p)) \/ IsDirAt(f, r.p)
        THEN [ok |-> FALSE, fs |-> f]
        ELSE IF r.p \in DOMAIN f
             THEN [ok |-> TRUE, fs |-> f]
             ELSE [ok |-> TRUE,
                   fs |-> TouchDir(FsPut(f, r.p,
                                         MkNode("file", cmode, <<>>, <<>>, Now)),
                                   Parent(r.p))])

SysChmod(f, wd, s, mode) == 
    Bind(Resolve(f, wd, s, TRUE), LAMBDA r :
        IF ~(r.ok /\ r.p \in DOMAIN f)
        THEN [ok |-> FALSE, fs |-> f]
        ELSE [ok |-> TRUE,
              fs |-> [f EXCEPT ![r.p].mode = mode % 4096, ![r.p].ctime = Now]])

SysChown(f, wd, s, uid, gid) == 
    Bind(Resolve(f, wd, s, TRUE), LAMBDA r :
        IF ~(r.ok /\ r.p \in DOMAIN f)
        THEN [ok |-> FALSE, fs |-> f]
        ELSE [ok |-> TRUE,
              fs |-> [f EXCEPT
                        ![r.p].uid = IF uid = 0 - 1 THEN @ ELSE uid,
                        ![r.p].gid = IF gid = 0 - 1 THEN @ ELSE gid,
                        ![r.p].ctime = Now]])

SysOpenTrunc(f, wd, s) == 
    Bind(Resolve(f, wd, s, TRUE), LAMBDA r :
        IF ~(r.ok /\ r.p \in DOMAIN f) \/ IsDirAt(f, r.p)
        THEN [ok |-> FALSE, fs |-> f, p |-> r.p]
        ELSE [ok |-> TRUE, p |-> r.p,
              fs |-> [f EXCEPT ![r.p].data = <<>>, ![r.p].mtime = Now,
                               ![r.p].ctime = Now]])

SysWrite(f, p, bytes) ==
    [f EXCEPT ![p].data = @ \o bytes, ![p].mtime = Now, ![p].ctime = Now]

\* chdir(path); the code never looks at its result
SysChdir(f, wd, s) == 
    Bind(Resolve(f, wd, s, TRUE), LAMBDA r :
        IF r.ok /\ IsDirAt(f, r.p) THEN r.p ELSE wd)

UNINIT == <<"(uninit)">>

Event(op, name, path, wd, phys, ok) ==
    [op |-> op, name |-> name, path |-> path, wd |-> wd, phys |-> phys, ok |-> ok]

Log(W, e) == [W EXCEPT !.ev = Append(@, e)]

\* fnmatch(pat, str, 0) for patterns of literal characters, ? and *
RECURSIVE fnmatch(_, _)
fnmatch(pat, str) ==
    IF pat = <<>> THEN str = <<>>
    ELSE IF Head(pat) = "*"
         THEN \/ fnmatch(Tail(pat), str)
              \/ (str # <<>> /\ fnmatch(pat, Tail(str)))
         ELSE /\ str # <<>>
              /\ (Head(pat) = "?" \/ Head(pat) = Head(str))
              /\ fnmatch(Tail(pat), Tail(str))

is_excluded(W, path) ==
    \E i \in 0 .. (W.xc - 2) : fnmatch(W.xl[i + 1], path)

\* the entries readdir() returns for directory d, in the order ord
EntriesOf(f, d, ord) ==
    SelectSeq(ord, LAMBDA n : n \in {<<".">>, <<".", ".">>} \/ Append(d, n) \in DOMAIN f)

\* stat() failed in get_last_time: the struct is read uninitialised
last_time_or_garbage(f, wd, s, garbage) ==
    IF Exists(f, wd, s, TRUE) THEN get_last_time(f, wd, s) ELSE garbage

clean_file(W, path, ddl, o) == 
    IF is_excluded(W, path)
    THEN W
    ELSE IF last_time_or_garbage(W.fs, W.cwd, path, o.garbage) < ddl \/ gArg.clean
         THEN Bind(SysRemove(W.fs, W.cwd, path), LAMBDA r :
                  Log([W EXCEPT !.fs = r.fs],
                      Event("remove", "clean_file", path, W.cwd, r.p, r.ok)))
         ELSE W

do_remove(W, path) == 
    Bind(SysRemove(W.fs, W.cwd, path), LAMBDA r :
        Log([W EXCEPT !.fs = r.fs],
            Event("remove", "do_remove", path, W.cwd, r.p, r.ok)))

Callback(W, cb, path, ctx, o) ==
    IF cb = "clean_file" THEN clean_file(W, path, ctx, o) ELSE do_remove(W, path)

RECURSIVE iterate_directory_sub(_, _, _, _, _, _, _)
RECURSIVE iterate_entries(_, _, _, _, _, _, _)

\* the readdir loop of iterate_directory_sub over the entries names[i..]
iterate_entries(W, names, i, cb, ctx, r, o) == 
    IF i > Len(names)
    THEN W
    ELSE iterate_entries(
             IF Head(names[i]) = "."
             THEN W
             ELSE IF is_directory(W.fs, W.cwd, names[i]) /\ r
                  THEN iterate_directory_sub(W, names[i], cb, ctx, TRUE, FALSE, o)
                  ELSE Callback(W, cb, names[i], ctx, o),
             names, i + 1, cb, ctx, r, o)

\* closedir(root); chdir(".."); and the callback on the directory itself
leave_directory(W, path, phys, cb, ctx, top, o) ==
    Bind(Log([W EXCEPT !.cwd = SysChdir(W.fs, W.cwd, <<".", ".">>)],
             Event("leave", "chdir", path, W.cwd, phys, top)), LAMBDA W3 :
        IF top THEN W3 ELSE Callback(W3, cb, path, ctx, o))

iterate_directory_sub(W, path, cb, ctx, r, top, o) == 
    Bind(Resolve(W.fs, W.cwd, path, TRUE), LAMBDA d :
        IF ~(d.ok /\ IsDirAt(W.fs, d.p))
        THEN W
        ELSE leave_directory(
                 iterate_entries(
                     Log([W EXCEPT !.cwd = SysChdir(W.fs, W.cwd, path)],
                         Event("enter", "chdir", path, W.cwd, d.p, top)),
                     EntriesOf(W.fs, d.p, o.ord), 1, cb, ctx, r, o),
                 path, d.p, cb, ctx, top, o))

iterate_directory(W, path, cb, ctx, r, o) ==
    iterate_directory_sub(W, path, cb, ctx, r, TRUE, o)

(***************************************************************************)
(* Filesystem Action Handlers.  in is the Process_File_In record.          *)
(***************************************************************************)

attr_clean(W, path, in, o) ==
    IF ~gArg.clean
    THEN W
    ELSE LET ddl == Now - convert_age(in.ageStr)
         IN  iterate_directory(W, path, "clean_file", ddl, TRUE, o)

DirMode == 493

attr_createdir(W, path, in, o) ==
    IF ~gArg.create
    THEN W
    ELSE IF ~is_valid_file(W.fs, W.cwd, path)
         THEN [W EXCEPT !.fs = SysMkdir(W.fs, W.cwd, path, DirMode).fs]
         ELSE W

attr_create(W, path, in, o) ==
    IF ~gArg.create
    THEN W
    ELSE IF ~is_valid_file(W.fs, W.cwd, path)
         THEN [W EXCEPT !.fs = SysCreat(W.fs, W.cwd, path, o.cmode).fs]
         ELSE W

attr_perm(W, path, in, o) == 
    IF in.modeStr = <<>> \/ Head(in.modeStr) = "-"
    THEN W
    ELSE Bind(SysChmod(W.fs, W.cwd, path, strtol(in.modeStr, 8).val), LAMBDA r :
             Log([W EXCEPT !.fs = r.fs],
                 Event("chmod", "attr_perm", path, W.cwd, <<>>, r.ok)))

getpwnam(user) == IF user = <<"u">> THEN 1 ELSE 0 - 1

getgrnam(group) == IF group = <<"g">> THEN 1 ELSE 0 - 1

adjust_user(W, path, user) == 
    IF user = <<>> \/ Head(user) = "-"
    THEN W
    ELSE IF getpwnam(user) = 0 - 1
         THEN W
         ELSE Bind(SysChown(W.fs, W.cwd, path, getpwnam(user), 0 - 1), LAMBDA r :
                  Log([W EXCEPT !.fs = r.fs],
                      Event("chown", "adjust_user", path, W.cwd, <<>>, r.ok)))

adjust_group(W, path, group) == 
    IF group = <<>> \/ Head(group) = "-"
    THEN W
    ELSE IF getgrnam(group) = 0 - 1
         THEN W
         ELSE Bind(SysChown(W.fs, W.cwd, path, 0 - 1, getgrnam(group)), LAMBDA r :
                  Log([W EXCEPT !.fs = r.fs],
                      Event("chown", "adjust_group", path, W.cwd, <<>>, r.ok)))

attr_ownership(W, path, in, o) ==
    adjust_group(adjust_user(W, path, in.userName), path, in.grpName)

Min(a, b) == IF a < b THEN a ELSE b

\* the loop of attr_write after the first write() returned s: every write()
\* is handed the start of arg, and accepts at most o.chunk bytes
RECURSIVE write_loop(_, _, _, _, _, _)
write_loop(f, p, arg, s, length, o) == 
    IF s = 0 \/ length = 0
    THEN f
    ELSE write_loop(SysWrite(f, p, SubSeq(arg, 1, Min(o.chunk, length - s))),
                    p, arg, Min(o.chunk, length - s), length - s, o)

attr_write(W, path, in, o) == 
    IF ~gArg.create
    THEN W
    ELSE IF is_valid_file(W.fs, W.cwd, path)
         THEN Bind(SysOpenTrunc(W.fs, W.cwd, path), LAMBDA fd :
                  IF ~fd.ok
                  THEN W
                  ELSE Log([W EXCEPT !.fs = write_loop(
                                SysWrite(fd.fs, fd.p,
                                         SubSeq(in.arg, 1, Min(o.chunk, Len(in.arg)))),
                                fd.p, in.arg, Min(o.chunk, Len(in.arg)),
                                Len(in.arg), o)],
                           Event("write", "attr_write", path, W.cwd, fd.p, TRUE)))
         ELSE W

\* attr_remove without its test of gArg.remove
attr_removeUngated(W, path, in, o) ==
    IF is_directory(W.fs, W.cwd, path)
    THEN iterate_directory(W, path, "do_remove", 0, TRUE, o)
    ELSE do_remove(W, path)

attr_remove(W, path, in, o) ==
    IF ~gArg.remove
    THEN W
    ELSE IF is_directory(W.fs, W.cwd, path)
         THEN iterate_directory(W, path, "do_remove", 0, TRUE, o)
         ELSE do_remove(W, path)

\* the inode flag bits of linux/fs.h the table names, and one it does not
AllFl ==
    {"APPEND", "DIRSYNC", "IMMUTABLE", "JOURNAL_DATA", "NOATIME", "NOCOW",
     "NODUMP", "NOTAIL", "PROJINHERIT", "SECRM", "SYNC", "TOPDIR", "UNRM",
     "COMPR"}

\* static unsigned long int flags[256]
AttrFlag(c) ==
    CASE c = "a" -> {"APPEND"}      [] c = "D" -> {"DIRSYNC"}
      [] c = "i" -> {"IMMUTABLE"}   [] c = "j" -> {"JOURNAL_DATA"}
      [] c = "A" -> {"NOATIME"}     [] c = "C" -> {"NOCOW"}
      [] c = "d" -> {"NODUMP"}      [] c = "t" -> {"NOTAIL"}
      [] c = "P" -> {"PROJINHERIT"} [] c = "s" -> {"SECRM"}
      [] c = "S" -> {"SYNC"}        [] c = "T" -> {"TOPDIR"}
      [] c = "u" -> {"UNRM"}
      [] OTHER -> {}

\* the mask the loop over attr[1..] accumulates
AttrMask(attr) == UNION {AttrFlag(attr[i]) : i \in 2 .. Len(attr)}

\* bitwise complement
Compl(m) == AllFl \ m

do_set_file_attr(W, path, attr) == 
    IF attr = <<>> \/ Head(attr) \notin {"+", "-"}
    THEN W
    ELSE Bind(Head(attr) = "+", LAMBDA type :
         Bind(IF type THEN AttrMask(attr) ELSE Compl(AttrMask(attr)), LAMBDA mask :
         Bind(Resolve(W.fs, W.cwd, path, TRUE), LAMBDA r :
             IF ~(r.ok /\ r.p \in DOMAIN W.fs)
             THEN W
             ELSE Bind(W.fs[r.p].flags, LAMBDA origin :
                      Log([W EXCEPT !.fs = [@ EXCEPT ![r.p].flags =
                                               IF type THEN origin \cup mask
                                               ELSE origin \cap Compl(mask)]],
                          Event("setflags", "do_set_file_attr", path, W.cwd,
                                r.p, TRUE))))))

attr_attr(W, path, in, o) == do_set_file_attr(W, path, in.arg)

\* attr_exclude storing t in the slot realloc added, excludedCount - 1
attr_excludeLastSlot(W, path, in, o) ==
    IF path = NULLSTR
    THEN [W EXCEPT !.crashed = TRUE]
    ELSE [W EXCEPT !.xc = W.xc + 1, !.xl = Append(W.xl, path)]

\* strdup(NULL) dereferences the null pointer: the process dies
attr_exclude(W, path, in, o) == 
    IF path = NULLSTR
    THEN [W EXCEPT !.crashed = TRUE]
    ELSE [W EXCEPT !.xc = W.xc + 1,
                   !.xl = [W.xl \o <<UNINIT>> EXCEPT ![W.xc] = path]]

ATTR_CREATE == 1
ATTR_PERM == 4
ATTR_CREATEDIR == 5
ATTR_WRITE == 8
ATTR_OWNERSHIP == 9
ATTR_CLEAN == 10
ATTR_REMOVE == 11
ATTR_ATTR == 12
ATTR_EXCLUDE == 13
ATTR_ONBOOT == 30
ATTR_GLOB == 31

\* the table without its initialiser for slot 12
attrHandlerWithoutAttr(i) ==
    CASE i = 1 -> "attr_create"     [] i = 4 -> "attr_perm"
      [] i = 5 -> "attr_createdir"  [] i = 8 -> "attr_write"
      [] i = 9 -> "attr_ownership"  [] i = 10 -> "attr_clean"
      [] i = 11 -> "attr_remove"    [] i = 13 -> "attr_exclude"
      [] OTHER -> "NULL"

\* the number of slots of attrHandler[]: its highest initialiser is [13]
AttrHandlerLen == 14

\* static Attr_Handler attrHandler[]: a slot the initialiser leaves out is NULL
attrHandler(i) ==
    CASE i = 1 -> "attr_create"     [] i = 4 -> "attr_perm"
      [] i = 5 -> "attr_createdir"  [] i = 8 -> "attr_write"
      [] i = 9 -> "attr_ownership"  [] i = 10 -> "attr_clean"
      [] i = 11 -> "attr_remove"    [] i = 12 -> "attr_attr"
      [] i = 13 -> "attr_exclude"
      [] OTHER -> "NULL"

CallHandler(W, h, path, in, o) ==
    CASE h = "attr_create" -> attr_create(W, path, in, o)
      [] h = "attr_perm" -> attr_perm(W, path, in, o)
      [] h = "attr_createdir" -> attr_createdir(W, path, in, o)
      [] h = "attr_write" -> attr_write(W, path, in, o)
      [] h = "attr_ownership" -> attr_ownership(W, path, in, o)
      [] h = "attr_clean" -> attr_clean(W, path, in, o)
      [] h = "attr_remove" -> attr_remove(W, path, in, o)
      [] h = "attr_attr" -> attr_attr(W, path, in, o)
      [] h = "attr_exclude" -> attr_exclude(W, path, in, o)
      [] OTHER -> [W EXCEPT !.crashed = TRUE]

\* the for loop of process_file from bit i on: i < (sizeof(in->attr) << 3) - 1
RECURSIVE process_bits(_, _, _, _, _)
process_bits(W, path, in, o, i) ==
    IF i >= 31 \/ W.crashed
    THEN W
    ELSE IF i \in in.attr
         THEN process_bits(
                  CallHandler(
                      Log(W, Event("handler", attrHandler(i), path, W.cwd, <<>>,
                                   Exists(W.fs, W.cwd, path, TRUE))),
                      attrHandler(i), path, in, o),
                  path, in, o, i + 1)
         ELSE process_bits(W, path, in, o, i + 1)

process_file(W, path, in, o) == process_bits(W, path, in, o, 0)

(***************************************************************************)
(* Path Resolver                                                           *)
(***************************************************************************)

HasMeta(comp) == \E i \in 1 .. Len(comp) : comp[i] \in {"*", "?"}

\* glob() matches a name starting with a period only against a pattern
\* component that starts with one
GlobNameMatch(pat, name) ==
    /\ (Head(name) = "." => Head(pat) = ".")
    /\ fnmatch(pat, name)

JoinPath(prefix, comp) ==
    IF prefix = <<>> THEN comp
    ELSE IF prefix = <<"/">> THEN prefix \o comp
    ELSE prefix \o <<"/">> \o comp

RECURSIVE GlobExpand(_, _, _, _, _, _)
RECURSIVE GlobOver(_, _, _, _, _, _, _, _)

\* the paths matching comps[i..] below the path string prefix
GlobExpand(f, wd, prefix, comps, i, ord) == 
    IF i > Len(comps)
    THEN (IF Exists(f, wd, prefix, FALSE) THEN <<prefix>> ELSE <<>>)
    ELSE IF ~HasMeta(comps[i])
         THEN GlobExpand(f, wd, JoinPath(prefix, comps[i]), comps, i + 1, ord)
         ELSE Bind(Resolve(f, wd, IF prefix = <<>> THEN <<".">> ELSE prefix, TRUE),
                   LAMBDA d :
                  IF ~(d.ok /\ IsDirAt(f, d.p))
                  THEN <<>>
                  ELSE GlobOver(f, wd, prefix, comps, i, ord,
                                SelectSeq(EntriesOf(f, d.p, ord),
                                          LAMBDA n : GlobNameMatch(comps[i], n)),
                                1))

GlobOver(f, wd, prefix, comps, i, ord, names, j) ==
    IF j > Len(names)
    THEN <<>>
    ELSE GlobExpand(f, wd, JoinPath(prefix, names[j]), comps, i + 1, ord)
         \o GlobOver(f, wd, prefix, comps, i, ord, names, j + 1)

\* glob(pattern, GLOB_NOSORT, NULL, &buf): gl_pathv
Glob(f, wd, pattern, ord) ==
    GlobExpand(f, wd, IF Head(pattern) = "/" THEN <<"/">> ELSE <<>>,
               SplitPath(pattern, <<>>, <<>>), 1, ord)

RECURSIVE glob_callbacks(_, _, _, _, _)
glob_callbacks(W, paths, j, in, o) ==
    IF j > Len(paths) \/ W.crashed
    THEN W
    ELSE glob_callbacks(process_file(W, paths[j], in, o), paths, j + 1, in, o)

\* glob(NULL, ...) dereferences the null pointer: the process dies
glob_match(W, pattern, in, o) ==
    IF pattern = NULLSTR
    THEN [W EXCEPT !.crashed = TRUE]
    ELSE glob_callbacks(W, Glob(W.fs, W.cwd, pattern, o.ord), 1, in, o)

(***************************************************************************)
(* Rule Parser                                                             *)
(***************************************************************************)

\* static entry_attr_t attrTableSet[256], as sets of bit positions
attrTableSet(c) ==
    CASE c = "w" -> {ATTR_WRITE}
      [] c = "f" -> {ATTR_CREATE, ATTR_WRITE, ATTR_OWNERSHIP, ATTR_PERM}
      [] c = "d" -> {ATTR_CREATEDIR, ATTR_OWNERSHIP, ATTR_PERM, ATTR_CLEAN}
      [] c = "!" -> {ATTR_ONBOOT}
      [] c = "r" -> {ATTR_REMOVE, ATTR_GLOB}
      [] c = "D" -> {ATTR_CREATEDIR, ATTR_OWNERSHIP, ATTR_PERM, ATTR_CLEAN,
                     ATTR_REMOVE}
      [] c = "q" -> {ATTR_CREATEDIR, ATTR_OWNERSHIP, ATTR_PERM, ATTR_CLEAN}
      [] c = "Q" -> {ATTR_CREATEDIR, ATTR_OWNERSHIP, ATTR_PERM, ATTR_CLEAN,
                     ATTR_REMOVE}
      [] c = "h" -> {ATTR_ATTR, ATTR_GLOB}
      [] c = "x" -> {ATTR_EXCLUDE}
      [] OTHER -> {}

\* the six %ms conversions of sscanf: toks are the fields converted, used
\* the number of characters read when the last conversion ended
RECURSIVE ScanFields(_, _, _)
ScanFields(line, i, toks) == 
    IF Len(toks) = 6
    THEN [toks |-> toks, used |-> i - 1]
    ELSE IF i > Len(line)
         THEN [toks |-> toks, used |-> i - 1]
         ELSE IF IsSpace(line[i])
              THEN ScanFields(line, i + 1, toks)
              ELSE Bind(CHOOSE j \in i .. Len(line) + 1 :
                            /\ \A k \in i .. j - 1 : ~IsSpace(line[k])
                            /\ (j = Len(line) + 1 \/ IsSpace(line[j])),
                        LAMBDA stop :
                       ScanFields(line, stop,
                                  Append(toks, SubSeq(line, i, stop - 1))))

sscanf6(line) == 
    Bind(ScanFields(line, 1, <<>>), LAMBDA r :
        [matched  |-> IF r.toks = <<>> THEN 0 - 1 ELSE Len(r.toks),
         toks     |-> r.toks,
         term_len |-> IF Len(r.toks) = 6 THEN r.used ELSE 0])

FieldOrNull(toks, i) == IF i <= Len(toks) THEN toks[i] ELSE NULLSTR

\* mode ? mode : dummy
FieldOrDummy(toks, i) == IF i <= Len(toks) THEN toks[i] ELSE <<>>

skip_space(p) ==
    LET RECURSIVE skip(_)
        skip(q) == IF q # <<>> /\ Head(q) \in {" ", "\t"} THEN skip(Tail(q)) ELSE q
    IN  skip(p)

\* attr |= attrTableSet[idx] over the characters of the type token
TypeAttr(p) == UNION {attrTableSet(p[i]) : i \in 1 .. Len(p)}

\* one line as the body of the while loop of parse_conf sees it
ParseLine(line) == 
    Bind(sscanf6(line), LAMBDA sc :
    Bind(IF sc.matched < 0 THEN <<>> ELSE skip_space(sc.toks[1]), LAMBDA p :
    Bind(TypeAttr(p), LAMBDA attr :
        [matched |-> sc.matched,
         type    |-> p,
         comment |-> p # <<>> /\ Head(p) = "#",
         attr    |-> attr,
         path    |-> FieldOrNull(sc.toks, 2),
         in      |-> [attr     |-> attr \ {ATTR_ONBOOT, ATTR_GLOB},
                      modeStr  |-> FieldOrDummy(sc.toks, 3),
                      userName |-> FieldOrDummy(sc.toks, 4),
                      grpName  |-> FieldOrDummy(sc.toks, 5),
                      ageStr   |-> FieldOrDummy(sc.toks, 6),
                      arg      |-> SubSeq(line, sc.term_len + 1, Len(line))]])))

LineD == <<"d", " ", "/", "b", " ", "0", "7", "0", "0", " ", "u", " ", "g", " ", "1", "d", "\n">>  \* d /b 0700 u g 1d\n
LineF == <<"f", " ", "/", "b", "/", "k", " ", "0", "6", "4", "4", " ", "-", " ", "-", " ", "-", " ", "h", "i", "\n">>  \* f /b/k 0644 - - - hi\n
LineX == <<"x", " ", "/", "b", "/", "k", "\n">>  \* x /b/k\n
LineR == <<"r", " ", "/", "b", "\n">>  \* r /b\n
LineDD == <<"D", " ", "/", "b", " ", "-", " ", "-", " ", "-", " ", "-", "\n">>  \* D /b - - - -\n
LineBlank == <<"\n">>  \* \n
LineHash == <<"#", " ", "c", "\n">>  \* # c\n
LineZ == <<"z", " ", "/", "b", " ", "0", "7", "0", "0", " ", "-", " ", "-", " ", "-", "\n">>  \* z /b 0700 - - -\n
LineAt == <<"@", " ", "/", "b", " ", "-", " ", "-", " ", "-", " ", "-", "\n">>  \* @ /b - - - -\n
LineH == <<"h", " ", "/", "b", "/", "k", " ", "+", "i", "\n">>  \* h /b/k +i\n
LineBoot == <<"d", "!", " ", "/", "b", " ", "0", "7", "0", "0", " ", "-", " ", "-", " ", "1", "d", "\n">>  \* d! /b 0700 - - 1d\n
LineType == <<"d", "\n">>  \* d\n
LineXk == <<"x", " ", "k", "\n">>  \* x k\n
LineRGlob == <<"r", " ", "/", "b", "/", "*", "\n">>  \* r /b/*\n
LineW == <<"w", " ", "/", "b", "/", "k", " ", "-", " ", "-", " ", "-", " ", "-", " ", "y", "o", "\n">>  \* w /b/k - - - - yo\n
LineRel == <<"d", " ", "b", "/", "s", " ", "-", " ", "-", " ", "-", " ", "-", "\n">>  \* d b/s - - - -\n

Lines ==
    { LineD,
      LineF,
      LineX,
      LineR,
      LineDD,
      LineBlank,
      LineHash,
      LineZ,
      LineAt,
      LineH,
      LineBoot,
      LineType,
      LineXk,
      LineRGlob,
      LineW,
      LineRel }

MaxLines == 2

Streams == UNION {[1 .. n -> Lines] : n \in 1 .. MaxLines}

Old == Now - 3 * 86400
Fresh == Now - 3600

DirNode(t) == MkNode("dir", DirMode, <<>>, <<>>, t)
FileNode(data, t) == [MkNode("file", 420, data, <<>>, t) EXCEPT !.flags = {"NODUMP", "COMPR"}]
LinkNode(target) == MkNode("link", 511, <<>>, target, Old)

nb == <<"b">>
ne == <<"e">>
nk == <<"k">>
nn == <<"n">>
ns == <<"s">>
nm == <<"m">>
nv == <<"v">>
nl == <<"l">>
nh == <<".", "h">>

\* /e with a file in it; /b does not exist
FsBare ==
    (<<>> :> DirNode(Old)) @@ (<<ne>> :> DirNode(Old))
    @@ (<<ne, nv>> :> FileNode(<<"v">>, Old))

\* /b holds an old file k, a fresh file n, a hidden file .h and a
\* directory s with an old file m
FsTree ==
    FsBare @@ (<<nb>> :> DirNode(Old))
    @@ (<<nb, nk>> :> FileNode(<<"k">>, Old))
    @@ (<<nb, nn>> :> FileNode(<<"n">>, Fresh))
    @@ (<<nb, nh>> :> FileNode(<<>>, Old))
    @@ (<<nb, ns>> :> DirNode(Old))
    @@ (<<nb, ns, nm>> :> FileNode(<<"m">>, Old))

\* FsTree with a symbolic link /b/l to the directory /e
FsLink == FsTree @@ (<<nb, nl>> :> LinkNode(<<ne>>))

InitFs == {FsBare, FsTree, FsLink}

\* readdir() and glob() orders: directory order is the filesystem's choice
Ord1 == <<<<".">>, <<".", ".">>, nb, ne, nh, nk, nl, nm, nn, ns, nv>>
Ord2 == <<nv, ns, nn, nm, nl, nk, nh, ne, nb, <<".", ".">>, <<".">>>>
Orders == {Ord1, Ord2}

\* open(path, O_CREAT | O_WRONLY) is called without the mode argument: the
\* mode of the new file is whatever the third argument register holds
CreatModes == {0, 420}

\* how many bytes one write() call accepts at most
WriteChunks == {1, 4096}

\* what an uninitialised struct stat may hold as a time
Garbage == {0, 2 * Now}

\* the choices a rule with flag set attr can observe
Oracles(attr) ==
    [ord     : IF attr \cap {ATTR_CLEAN, ATTR_REMOVE, ATTR_GLOB} # {}
               THEN Orders ELSE {Ord1},
     cmode   : IF ATTR_CREATE \in attr THEN CreatModes ELSE {0},
     chunk   : IF ATTR_WRITE \in attr THEN WriteChunks ELSE {4096},
     garbage : IF ATTR_CLEAN \in attr THEN Garbage ELSE {0}]

Modes == [boot : BOOLEAN, clean : BOOLEAN, create : BOOLEAN, remove : BOOLEAN]

NoIn ==
    [attr |-> {}, modeStr |-> <<>>, userName |-> <<>>, grpName |-> <<>>,
     ageStr |-> <<>>, arg |-> <<>>]

NoLast ==
    [what |-> "none", idx |-> 0, attr |-> {}, path |-> <<>>, in |-> NoIn,
     pre |-> FsBare, prewd |-> <<>>, prexc |-> 1, ev |-> <<>>, seen |-> {}]

IdleAge == [pc |-> "off", s |-> <<>>, res |-> 0]
IdleAttr == [pc |-> "off", arg |-> <<>>, origin |-> {}]

(***************************************************************************)
(* parse_conf: one action per way through the body of its while loop       *)
(***************************************************************************)

Init ==
    /\ conf \in Streams
    /\ pos = 1
    /\ status = "running"
    /\ gArg \in Modes
    /\ fs \in InitFs
    /\ cwd = <<>>
    /\ excl = [xl |-> <<NULLSTR>>, xc |-> 1]
    /\ last = NoLast
    /\ ageCall = IdleAge
    /\ attrCall = IdleAttr

World == [fs |-> fs, cwd |-> cwd, xl |-> excl.xl, xc |-> excl.xc, ev |-> <<>>,
          crashed |-> FALSE]

Observe(what, pl) ==
    [what |-> what, idx |-> pos, attr |-> pl.attr, path |-> pl.path, in |-> pl.in,
     pre |-> fs, prewd |-> cwd, prexc |-> excl.xc, ev |-> <<>>, seen |-> last.seen]

\* the world W the dispatch of line pos ended in
Commit(what, pl, W) ==
    /\ fs' = W.fs
    /\ cwd' = W.cwd
    /\ excl' = [xl |-> W.xl, xc |-> W.xc]
    /\ status' = IF W.crashed THEN "crashed" ELSE "running"
    /\ pos' = pos + 1
    /\ last' = [Observe(what, pl) EXCEPT !.ev = W.ev, !.seen = @ \cup {pos}]
    /\ UNCHANGED <<conf, gArg, ageCall, attrCall>>

\* getline() < 0: the stream is at its end
GetlineEOF ==
    /\ status = "running"
    /\ pos > Len(conf)
    /\ status' = "done"
    /\ UNCHANGED <<conf, pos, gArg, fs, cwd, excl, last, ageCall, attrCall>>

\* the loop body without its test of gArg.boot
LineKindIgnoringBoot(pl) ==
    IF pl.matched < 0 THEN "break"
    ELSE IF pl.comment THEN "comment"
    ELSE "dispatch"

\* which way line pl takes through the loop body
LineKind(pl) ==
    IF pl.matched < 0 THEN "break"
    ELSE IF pl.comment THEN "comment"
    ELSE IF ATTR_ONBOOT \in pl.attr /\ ~gArg.boot THEN "notboot"
    ELSE "dispatch"

\* matched < 0: break
LineBreakOn(pl) ==
    /\ LineKind(pl) = "break"
    /\ status' = "done"
    /\ last' = Observe("break", pl)
    /\ UNCHANGED <<conf, pos, gArg, fs, cwd, excl, ageCall, attrCall>>

LineBreak ==
    /\ status = "running"
    /\ pos <= Len(conf)
    /\ LineBreakOn(ParseLine(conf[pos]))

\* p[0] == '#', or (attr & ATTR_ONBOOT) && !gArg.boot: continue
LineContinueOn(pl) ==
    /\ LineKind(pl) \in {"comment", "notboot"}
    /\ last' = Observe(LineKind(pl), pl)
    /\ pos' = pos + 1
    /\ UNCHANGED <<conf, status, gArg, fs, cwd, excl, ageCall, attrCall>>

LineContinue ==
    /\ status = "running"
    /\ pos <= Len(conf)
    /\ LineContinueOn(ParseLine(conf[pos]))

\* attr & ATTR_GLOB ? glob_match(path, process_file, &in)
\*                  : process_file(path, &in)
Dispatch(W, pl, o) ==
    IF ATTR_GLOB \in pl.attr
    THEN glob_match(W, pl.path, pl.in, o)
    ELSE process_file(W, pl.path, pl.in, o)

LineDispatchOn(pl) ==
    /\ LineKind(pl) = "dispatch"
    /\ \E o \in Oracles(pl.attr) :
           Commit(IF ATTR_GLOB \in pl.attr THEN "glob" ELSE "literal", pl,
                  Dispatch(World, pl, o))

LineDispatch ==
    /\ status = "running"
    /\ pos <= Len(conf)
    /\ LineDispatchOn(ParseLine(conf[pos]))

Next ==
    \/ GetlineEOF
    \/ LineBreak
    \/ LineContinue
    \/ LineDispatch

Spec == Init /\ [][Next]_vars

(***************************************************************************)
(* convert_age applied to bounded age strings                              *)
(***************************************************************************)

MaxAgeLen == 5

AgeChars == {"0", "1", "2", "8", "d", "h", "x", "-"}

AgeExtra ==
    { <<"1", "w">>, <<"2", "m">>, <<"1", "s">>, <<"1", "w", "2", "m", "1", "s">>,
      <<"1", "D">>, <<"1", " ", "d">> }

RECURSIVE StringsUpTo(_, _)
StringsUpTo(chars, n) ==
    IF n = 0 THEN {<<>>}
    ELSE LET shorter == StringsUpTo(chars, n - 1)
         IN  shorter \cup {<<c>> \o t : c \in chars,
                                         t \in {x \in shorter : Len(x) = n - 1}}

Parked ==
    /\ conf = <<>>
    /\ pos = 1
    /\ status = "done"
    /\ gArg = [boot |-> FALSE, clean |-> FALSE, create |-> FALSE, remove |-> FALSE]
    /\ cwd = <<>>
    /\ excl = [xl |-> <<NULLSTR>>, xc |-> 1]
    /\ last = NoLast

AgeInit ==
    /\ Parked
    /\ fs = FsBare
    /\ attrCall = IdleAttr
    /\ ageCall \in [pc : {"idle"}, s : StringsUpTo(AgeChars, MaxAgeLen) \cup AgeExtra,
                    res : {0}]

CallConvertAge ==
    /\ ageCall.pc = "idle"
    /\ ageCall' = [ageCall EXCEPT !.pc = "done", !.res = convert_age(ageCall.s)]
    /\ UNCHANGED <<conf, pos, status, gArg, fs, cwd, excl, last, attrCall>>

AgeNext == CallConvertAge

SpecAge == AgeInit /\ [][AgeNext]_vars

(***************************************************************************)
(* do_set_file_attr applied to bounded arguments and attribute masks       *)
(***************************************************************************)

MaxAttrLen == 3

AttrChars == {"+", "-", "i", "a", "A", "q"}

AttrOrigins == SUBSET {"IMMUTABLE", "APPEND", "NOATIME", "COMPR"}

AttrPath == <<"/", "e", "/", "v">>

AttrInit ==
    /\ Parked
    /\ ageCall = IdleAge
    /\ attrCall \in [pc : {"idle"}, arg : StringsUpTo(AttrChars, MaxAttrLen),
                     origin : AttrOrigins]
    /\ fs = [FsBare EXCEPT ![<<ne, nv>>].flags = attrCall.origin]

CallSetFileAttr ==
    /\ attrCall.pc = "idle"
    /\ attrCall' = [attrCall EXCEPT !.pc = "done"]
    /\ fs' = do_set_file_attr(World, AttrPath, attrCall.arg).fs
    /\ UNCHANGED <<conf, pos, status, gArg, cwd, excl, last, ageCall>>

AttrNext == CallSetFileAttr

SpecSetAttr == AttrInit /\ [][AttrNext]_vars

(***************************************************************************)
(* parse_conf on one line whose type token is any string of characters     *)
(***************************************************************************)

MaxTypeLen == 3

TypeChars == {"d", "f", "r", "h", "x", "!", "#"}

TypeLine(tok) == tok \o <<" ", "/", "b", " ", "0", "7", "0", "0", "\n">>

TypeStreams ==
    {<<TypeLine(tok)>> : tok \in StringsUpTo(TypeChars, MaxTypeLen) \ {<<>>}}
        \cup {<<LineBlank>>}

TypeInit ==
    /\ conf \in TypeStreams
    /\ pos = 1
    /\ status = "running"
    /\ gArg \in Modes
    /\ fs = FsTree
    /\ cwd = <<>>
    /\ excl = [xl |-> <<NULLSTR>>, xc |-> 1]
    /\ last = NoLast
    /\ ageCall = IdleAge
    /\ attrCall = IdleAttr

SpecType == TypeInit /\ [][Next]_vars

(***************************************************************************)
(* parse_conf on streams of the rules that create, clean, remove, exclude  *)
(***************************************************************************)

MaxRunLines == 2

RunLines == {LineX, LineXk, LineD, LineF, LineDD, LineR, LineHash, LineBlank}

RunStreams == UNION {[1 .. n -> RunLines] : n \in 1 .. MaxRunLines}

RunInit ==
    /\ conf \in RunStreams
    /\ pos = 1
    /\ status = "running"
    /\ gArg \in Modes
    /\ fs \in {FsBare, FsTree}
    /\ cwd = <<>>
    /\ excl = [xl |-> <<NULLSTR>>, xc |-> 1]
    /\ last = NoLast
    /\ ageCall = IdleAge
    /\ attrCall = IdleAttr

SpecRun == RunInit /\ [][Next]_vars

(***************************************************************************)
(* Properties                                                              *)
(***************************************************************************)

\* the line the loop iteration just completed was working on
LastLine == ParseLine(conf[last.idx])

\* the iteration just completed dispatched a line that has a type and a path
Dispatched == last.what \in {"literal", "glob"} /\ LastLine.matched >= 2

IsPrefix(t, q) == Len(q) >= Len(t) /\ SubSeq(q, 1, Len(t)) = t

\* what a filesystem state is to the idempotence property: which paths
\* exist, and the kind, content, mode and ownership of each
FsView(f) ==
    [p \in DOMAIN f |-> [kind |-> f[p].kind, data |-> f[p].data, mode |-> f[p].mode,
                         uid |-> f[p].uid, gid |-> f[p].gid, target |-> f[p].target]]

HandlerAt(i, names) == last.ev[i].op = "handler" /\ last.ev[i].name \in names

\* C1: in create mode, a rule with CREATE_DIR whose directory does not exist
\* yet has its create_dir handler invoked before its perm and owner handlers.
C1_CreateDirBeforePermOwner ==
    ( /\ Dispatched
      /\ gArg.create
      /\ ATTR_CREATEDIR \in last.in.attr
      /\ ~Exists(last.pre, last.prewd, last.path, TRUE) )
    => \A i \in 1 .. Len(last.ev) :
           HandlerAt(i, {"attr_perm", "attr_ownership"})
           => \E j \in 1 .. i - 1 : HandlerAt(j, {"attr_createdir"})

\* C2: dispatching the same rule twice in succession leaves existence,
\* content, mode and ownership of every path as dispatching it once did.
C2_Idempotent ==
    ( /\ last.idx = 2
      /\ Dispatched
      /\ status # "crashed"
      /\ conf[1] = conf[2] )
    => FsView(fs) = FsView(last.pre)

LastTimeOf(n) ==
    IF n.atime >= n.mtime /\ n.atime >= n.ctime THEN n.atime
    ELSE IF n.mtime >= n.ctime THEN n.mtime ELSE n.ctime

\* the rule just dispatched ran the clean handler and not the remove handler
CleanOnly ==
    /\ Dispatched
    /\ gArg.clean
    /\ ATTR_CLEAN \in last.in.attr
    /\ ~(gArg.remove /\ ATTR_REMOVE \in last.in.attr)

\* the directory the rule just dispatched names, in the state before it
TargetBefore == Resolve(last.pre, last.prewd, last.path, TRUE)

\* C3: a clean with a parseable age removes no entry whose last-activity
\* time is at or after now - age.
C3_CleanKeepsRecent ==
    ( /\ CleanOnly
      /\ convert_age(last.in.ageStr) >= 0
      /\ TargetBefore.ok )
    => \A p \in DOMAIN last.pre :
           ( /\ IsPrefix(TargetBefore.p, p)
             /\ p # TargetBefore.p
             /\ LastTimeOf(last.pre[p]) >= Now - convert_age(last.in.ageStr) )
           => p \in DOMAIN fs

\* C4: a path named by an EXCLUDE rule dispatched before a clean rule on
\* its directory is not removed by that clean.
C4_ExcludedSurvivesClean ==
    ( /\ last.idx = 2
      /\ CleanOnly
      /\ ParseLine(conf[1]).attr = {ATTR_EXCLUDE}
      /\ TargetBefore.ok
      /\ Exists(last.pre, <<>>, ParseLine(conf[1]).path, FALSE)
      /\ IsPrefix(TargetBefore.p,
                  Resolve(last.pre, <<>>, ParseLine(conf[1]).path, FALSE).p) )
    => Exists(fs, <<>>, ParseLine(conf[1]).path, FALSE)

\* C5: after the remove handler ran on an existing target, the target and
\* everything that was below it are gone.
C5_RemoveDeletesTree ==
    ( /\ Dispatched
      /\ gArg.remove )
    => \A i \in 1 .. Len(last.ev) :
           ( /\ HandlerAt(i, {"attr_remove"})
             /\ Exists(last.pre, last.ev[i].wd, last.ev[i].path, FALSE) )
           => \A p \in DOMAIN last.pre :
                  IsPrefix(Resolve(last.pre, last.ev[i].wd, last.ev[i].path, FALSE).p, p)
                  => p \notin DOMAIN fs

\* the reference mapping of the Attribute Table as the specification lists it
ReferenceTable(c) ==
    CASE c = "f" -> {ATTR_CREATE, ATTR_WRITE, ATTR_OWNERSHIP, ATTR_PERM}
      [] c = "w" -> {ATTR_WRITE}
      [] c \in {"d", "q"} -> {ATTR_CREATEDIR, ATTR_OWNERSHIP, ATTR_PERM, ATTR_CLEAN}
      [] c \in {"D", "Q"} -> {ATTR_CREATEDIR, ATTR_OWNERSHIP, ATTR_PERM, ATTR_CLEAN,
                              ATTR_REMOVE}
      [] c = "r" -> {ATTR_REMOVE, ATTR_GLOB}
      [] c = "z" -> {ATTR_OWNERSHIP, ATTR_PERM, ATTR_GLOB}
      [] c = "x" -> {ATTR_EXCLUDE}
      [] c = "h" -> {ATTR_ATTR, ATTR_GLOB}
      [] OTHER -> {}

\* C6: the flag set computed for a one-character type token is the set the
\* reference mapping lists for it, and empty for a character outside it.
C6_TypeTable ==
    (Dispatched /\ Len(LastLine.type) = 1)
    => last.attr = ReferenceTable(LastLine.type[1])

\* a line that carries a rule: a type and a path, no comment, and not an
\* on-boot rule outside boot mode
RuleLine(line) ==
    /\ ParseLine(line).matched >= 2
    /\ LineKind(ParseLine(line)) = "dispatch"

\* C7: when parse_conf has returned, every rule line of the stream has been
\* dispatched, whatever blank, comment or malformed lines precede it.
C7_BadLineIsLocal ==
    status = "done"
    => \A i \in 1 .. Len(conf) : RuleLine(conf[i]) => i \in last.seen

TrimNewline(s) ==
    IF s # <<>> /\ s[Len(s)] = "\n" THEN SubSeq(s, 1, Len(s) - 1) ELSE s

\* the argument of a line as the grammar defines it: the text after the
\* sixth field without leading blanks and the trailing newline
ReferenceArg(line) ==
    IF Len(ScanFields(line, 1, <<>>).toks) < 6
    THEN <<>>
    ELSE TrimNewline(SkipWs(SubSeq(line, ScanFields(line, 1, <<>>).used + 1,
                                   Len(line))))

\* C8: the argument handed to the handlers is the rest of the line after the
\* sixth field, trimmed, and a write leaves the file holding exactly it.
C8_ArgumentTrimmed ==
    Dispatched
    => /\ last.in.arg = ReferenceArg(conf[last.idx])
       /\ \A i \in 1 .. Len(last.ev) :
              (last.ev[i].op = "write" /\ last.ev[i].phys \in DOMAIN fs)
              => fs[last.ev[i].phys].data = ReferenceArg(conf[last.idx])

\* C9: do_set_file_attr sets the named bits for + and clears them for -,
\* and leaves every bit the argument does not name as it was.
C9_SetAttrMask ==
    ( /\ attrCall.pc = "done"
      /\ attrCall.arg # <<>>
      /\ Head(attrCall.arg) \in {"+", "-"} )
    => fs[<<ne, nv>>].flags =
           IF Head(attrCall.arg) = "+"
           THEN attrCall.origin \cup AttrMask(attrCall.arg)
           ELSE attrCall.origin \ AttrMask(attrCall.arg)

IsDecDigit(c) == c \in {"0", "1", "2", "3", "4", "5", "6", "7", "8", "9"}

\* a string of <integer><unit> pairs: the sum of integer * unit with the
\* integers read in decimal, or -2 when the string is no such string
RECURSIVE PairSum(_, _, _, _)
PairSum(s, num, any, total) ==
    IF s = <<>>
    THEN (IF any THEN 0 - 2 ELSE total)
    ELSE IF IsDecDigit(Head(s))
         THEN PairSum(Tail(s), num * 10 + DigitVal(Head(s)), TRUE, total)
         ELSE IF any /\ AgeUnit(Head(s)) # 0
              THEN PairSum(Tail(s), 0, FALSE, total + num * AgeUnit(Head(s)))
              ELSE 0 - 2

\* C10: convert_age gives the sum of integer * unit over the pairs of its
\* argument, and the sentinel for an empty string, a leading - and an
\* unrecognised unit.
C10_ConvertAge ==
    ageCall.pc = "done"
    => /\ (ageCall.s = <<>> \/ Head(ageCall.s) = "-") => ageCall.res = 0 - 1
       /\ (ageCall.s # <<>> /\ PairSum(ageCall.s, 0, FALSE, 0) >= 0)
          => ageCall.res = PairSum(ageCall.s, 0, FALSE, 0)
       /\ (ageCall.s = <<"3", "x">>) => ageCall.res = 0 - 1

WithoutBang(t) == SelectSeq(t, LAMBDA c : c # "!")

HasBang(t) == \E i \in 1 .. Len(t) : t[i] = "!"

\* the iteration just completed worked on a rule whose type token has a !
BangRule == last.idx >= 1 /\ last.what # "break" /\ last.what # "comment"
            /\ HasBang(LastLine.type)

\* C11: a rule with the ! modifier invokes no handler and changes nothing
\* outside boot mode; in boot mode it is dispatched with the flags of its
\* type token without the !; ONBOOT and GLOB are never among the flags the
\* dispatcher iterates over, and every handler invoked belongs to such a flag.
C11_OnBootModifier ==
    /\ BangRule =>
          /\ ~gArg.boot => /\ last.what = "notboot"
                           /\ last.ev = <<>>
                           /\ fs = last.pre
                           /\ cwd = last.prewd
                           /\ excl.xc = last.prexc
          /\ gArg.boot => /\ last.what \in {"literal", "glob"}
                          /\ last.in.attr = TypeAttr(WithoutBang(LastLine.type))
                                                \ {ATTR_GLOB}
                          /\ (last.what = "glob")
                                 = (ATTR_GLOB \in TypeAttr(WithoutBang(LastLine.type)))
    /\ last.idx >= 1 =>
          /\ ATTR_ONBOOT \notin last.in.attr
          /\ ATTR_GLOB \notin last.in.attr
          /\ \A i \in 1 .. Len(last.ev) :
                 last.ev[i].op = "handler"
                 => \E b \in last.in.attr : last.ev[i].name = attrHandler(b)

C11_BootDispatched ==
    /\ BangRule
    /\ gArg.boot
    /\ last.what = "literal"
    /\ \E i \in 1 .. Len(last.ev) : HandlerAt(i, {"attr_createdir"})

\* C20: every flag in the set handed to the dispatcher indexes a slot inside
\* attrHandler[] that holds a handler, whatever characters the type token is
\* made of; the dispatcher never calls an empty slot.
C20_HandlerForEveryFlag ==
    (last.idx >= 1 /\ last.what \in {"literal", "glob"})
    => /\ \A b \in last.in.attr : b \in 0 .. AttrHandlerLen - 1
                                  /\ attrHandler(b) # "NULL"
       /\ \A i \in 1 .. Len(last.ev) : ~HandlerAt(i, {"NULL"})
       /\ status # "crashed"

C20_ManyFlagsDispatched ==
    /\ last.what = "literal"
    /\ Len(LastLine.type) >= 2
    /\ Cardinality(last.in.attr) >= 6
    /\ Cardinality({i \in 1 .. Len(last.ev) : last.ev[i].op = "handler"}) >= 6

\* C12: a line with a type token and no path token invokes no handler, so no
\* handler receives a null path, and the loop goes on to the next line.
C12_NoPathIsMalformed ==
    ( /\ last.idx >= 1
      /\ LastLine.matched = 1
      /\ ~LastLine.comment )
    => /\ \A i \in 1 .. Len(last.ev) : last.ev[i].op # "handler"
       /\ status # "crashed"

\* no path was added by the iteration just completed, and every path that is
\* left has the kind and the content it had before
NothingCreatedOrWritten ==
    /\ DOMAIN fs \subseteq DOMAIN last.pre
    /\ \A p \in DOMAIN fs : /\ fs[p].data = last.pre[p].data
                            /\ fs[p].kind = last.pre[p].kind
                            /\ fs[p].target = last.pre[p].target

RemovalsBy(name) ==
    {i \in 1 .. Len(last.ev) : last.ev[i].op = "remove" /\ last.ev[i].name = name}

\* C13: with create mode off no line creates a path or changes a content;
\* with clean mode off the clean handler attempts no removal; with remove
\* mode off the remove handler attempts no removal; with all three off the
\* set of paths and their contents are as before the line.
C13_ModeGating ==
    last.idx >= 1
    => /\ ~gArg.create => NothingCreatedOrWritten
       /\ ~gArg.clean => RemovalsBy("clean_file") = {}
       /\ ~gArg.remove => RemovalsBy("do_remove") = {}
       /\ (~gArg.create /\ ~gArg.clean /\ ~gArg.remove)
          => /\ DOMAIN fs = DOMAIN last.pre
             /\ NothingCreatedOrWritten
             /\ cwd = last.prewd

C13_AllOffDispatched ==
    /\ ~gArg.create /\ ~gArg.clean /\ ~gArg.remove
    /\ Dispatched
    /\ \E i \in 1 .. Len(last.ev) : HandlerAt(i, {"attr_remove"})
    /\ \E i \in 1 .. Len(last.ev) : HandlerAt(i, {"attr_clean"})
    /\ \E i \in 1 .. Len(last.ev) : HandlerAt(i, {"attr_createdir"})
    /\ Exists(fs, <<>>, last.path, TRUE)

\* C14: the three-field line h <file> +i adds the immutable bit to the flags
\* of the file and leaves its other flags as they were, in every mode.
C14_ThreeFieldAttrLine ==
    ( /\ last.idx >= 1
      /\ conf[last.idx] = LineH
      /\ last.what = "glob"
      /\ <<nb, nk>> \in DOMAIN last.pre
      /\ <<nb, nk>> \in DOMAIN fs )
    => fs[<<nb, nk>>].flags = last.pre[<<nb, nk>>].flags \cup {"IMMUTABLE"}

\* C15: in create mode, after the write handler has run on an existing file
\* the content of the file is the argument it was handed, however many bytes
\* each write call accepted.
C15_PartialWrites ==
    (Dispatched /\ gArg.create /\ ATTR_WRITE \in last.in.attr)
    => \A i \in 1 .. Len(last.ev) :
           (last.ev[i].op = "write" /\ last.ev[i].phys \in DOMAIN fs)
           => fs[last.ev[i].phys].data = last.in.arg

\* the patterns is_excluded consults: slots 0 .. excludedCount - 2
Consulted == SubSeq(excl.xl, 1, excl.xc - 1)

\* the paths of the EXCLUDE rules among the lines dispatched so far, in
\* file order
RECURSIVE ExcludedUpTo(_)
ExcludedUpTo(n) ==
    IF n = 0 THEN <<>>
    ELSE IF n \in last.seen /\ ATTR_EXCLUDE \in ParseLine(conf[n]).in.attr
         THEN Append(ExcludedUpTo(n - 1), ParseLine(conf[n]).path)
         ELSE ExcludedUpTo(n - 1)

\* C16: between any two lines the patterns the membership test consults are
\* the paths of the EXCLUDE rules dispatched so far, all of them, in file
\* order, none of them an unwritten slot; a dispatch saw as many patterns as
\* EXCLUDE rules were dispatched before it.
C16_RegistryInFileOrder ==
    status # "crashed"
    => /\ Consulted = ExcludedUpTo(Len(conf))
       /\ \A i \in 1 .. Len(Consulted) : Consulted[i] \notin {UNINIT, NULLSTR}
       /\ Dispatched
          => last.prexc - 1 =
                 Cardinality({i \in last.seen :
                                 /\ i < last.idx
                                 /\ ATTR_EXCLUDE \in ParseLine(conf[i]).in.attr})

C16_CleanAfterExclude ==
    /\ last.idx = 2
    /\ CleanOnly
    /\ last.prexc = 2
    /\ Consulted = <<ParseLine(conf[1]).path>>
    /\ RemovalsBy("clean_file") # {}

\* the directories the traversal has opened and not yet left after the first
\* k events of the dispatch, outermost first
RECURSIVE OpenDirs(_)
OpenDirs(k) ==
    IF k = 0 THEN <<>>
    ELSE IF last.ev[k].op = "enter" THEN Append(OpenDirs(k - 1), last.ev[k].phys)
    ELSE IF last.ev[k].op = "leave"
         THEN SubSeq(OpenDirs(k - 1), 1, Len(OpenDirs(k - 1)) - 1)
    ELSE OpenDirs(k - 1)

\* event i is the callback applied to an entry read from an open directory
IsCallback(i) == last.ev[i].op = "remove" /\ OpenDirs(i - 1) # <<>>

\* the entry callback i was applied to: the name read, in the directory read
ListedEntry(i) == Append(OpenDirs(i - 1)[Len(OpenDirs(i - 1))], last.ev[i].path)

\* C17: within a traversal the callback is applied to a subdirectory only
\* after it has been applied to every non-hidden entry inside it, and never
\* to an entry whose name starts with a dot.
C17_PostOrder ==
    Dispatched
    => \A i \in 1 .. Len(last.ev) :
           IsCallback(i)
           => /\ Head(last.ev[i].path) # "."
              /\ IsDirAt(last.pre, ListedEntry(i))
                 => \A q \in Children(last.pre, ListedEntry(i)) :
                        Head(q[Len(q)]) # "."
                        => \E j \in 1 .. i - 1 :
                               IsCallback(j) /\ ListedEntry(j) = q

\* leave event j closes the directory enter event i opened
Closes(i, j) ==
    /\ last.ev[i].op = "enter"
    /\ last.ev[j].op = "leave"
    /\ i < j
    /\ Len(OpenDirs(j)) = Len(OpenDirs(i - 1))
    /\ \A k \in i .. j - 1 : Len(OpenDirs(k)) > Len(OpenDirs(i - 1))

\* C18: the chdir("..") that leaves a directory puts the working directory
\* back to what it was before the directory was entered, and the working
\* directory after a dispatch is the one before it.
C18_CwdRestored ==
    Dispatched
    => /\ \A i, j \in 1 .. Len(last.ev) :
              Closes(i, j) => Parent(last.ev[j].wd) = last.ev[i].wd
       /\ cwd = last.prewd

\* C19: every removal the traversal of a target attempts is of a path inside
\* the target, and no path outside the targets of the dispatch is deleted.
C19_Containment ==
    Dispatched
    => /\ \A i \in 1 .. Len(last.ev) :
              IsCallback(i)
              => /\ IsPrefix(OpenDirs(i - 1)[1], last.ev[i].phys)
                 /\ last.ev[i].phys # OpenDirs(i - 1)[1]
       /\ \A p \in DOMAIN last.pre \ DOMAIN fs :
              \E i \in 1 .. Len(last.ev) :
                  \/ /\ last.ev[i].op = "enter"
                     /\ OpenDirs(i - 1) = <<>>
                     /\ IsPrefix(last.ev[i].phys, p)
                  \/ /\ last.ev[i].op = "remove"
                     /\ OpenDirs(i - 1) = <<>>
                     /\ last.ev[i].phys = p

====
